---- MODULE Spec2Model ----
(***************************************************************************)
(* Model of the template expression engine (package template) and of the  *)
(* reporter's test summary.  Evaluation is modelled big-step: every        *)
(* execute* method is an operator that takes the template handle, the      *)
(* node, the data tree and the mutable world (byte-array heap, function    *)
(* stashes, trace) and returns the Go result pair together with the new    *)
(* world.  A Go panic is a third outcome that unwinds to the nearest       *)
(* Execute.                                                                *)
(***************************************************************************)
EXTENDS Integers, Sequences, FiniteSets, TLC

VARIABLES
  tmpl,    \* the *Template built by New, or NoTemplate
  data,    \* the data tree handed to Execute
  heap,    \* backing arrays of the byte slices, by array id
  heap0,   \* the backing arrays as they were before the first Execute
  stash,   \* the funcStash objects, by address
  stash0,  \* the handle's funcStash as the last Execute found it
  ret,     \* what the last Execute returned
  prev,    \* what the Execute before the last returned
  log,     \* trace of the last Execute
  saved,   \* every function handed to funcStash.save, in order
  runs,    \* number of Execute calls made on the handle
  summary,   \* the *testSummary: its mutex and its three lists
  appenders, \* the goroutines that call append: position and arguments
  reader,    \* the goroutine that calls String: position and values read
  text       \* what String returned, or NoText

templateVars ==
  <<tmpl, data, heap, heap0, stash, stash0, ret, prev, log, saved, runs>>
summaryVars == <<summary, appenders, reader, text>>
vars ==
  <<tmpl, data, heap, heap0, stash, stash0, ret, prev, log, saved, runs,
    summary, appenders, reader, text>>

--------------------------------------------------------------------------
(* Bounds *)

\* Width in bits standing for the 64 bits of int64 / uint64.
IntBits == 4
\* Executions of one handle.
MaxRuns == 2
\* Length of the strings that are concatenated.
MaxLen == 4
\* Calls of append made by one goroutine.
MaxAppends == 2

--------------------------------------------------------------------------
(* Integers of the evaluator *)

RECURSIVE Pow2(_)
Pow2(n) == IF n = 0 THEN 1 ELSE 2 * Pow2(n - 1)

MaxInt64 == Pow2(IntBits - 1) - 1
MinInt64 == -Pow2(IntBits - 1)
MaxUint64 == Pow2(IntBits) - 1

Abs(n) == IF n < 0 THEN -n ELSE n

\* Two's-complement wrap of a mathematical integer into int64 / uint64.
WrapInt64(n) == ((n - MinInt64) % Pow2(IntBits)) + MinInt64
WrapUint64(n) == n % Pow2(IntBits)

\* Go's / and % truncate toward zero (y # 0).
TruncQuo(x, y) ==
  IF (x < 0) = (y < 0) THEN Abs(x) \div Abs(y) ELSE -(Abs(x) \div Abs(y))
TruncRem(x, y) == x - y * TruncQuo(x, y)

RECURSIVE Gcd(_, _)
Gcd(a, b) == IF b = 0 THEN a ELSE Gcd(b, a % b)

--------------------------------------------------------------------------
(* Host values: [k |-> reflect kind, p |-> payload].  Payloads are         *)
(* sequences of integers: <<n>> for integers and booleans (0/1), <<num,    *)
(* den>> for floats, the characters for strings, <<array, offset, len,     *)
(* cap>> for byte slices, <<id>> for functions, pointers and containers.   *)

V(k, p) == [k |-> k, p |-> p]
Nil == V("invalid", <<>>)
Bool(b) == V("bool", <<IF b THEN 1 ELSE 0>>)
Int64(n) == V("int64", <<n>>)
Uint64(n) == V("uint64", <<n>>)
Float64(n, d) ==
  LET g == Gcd(Abs(n), Abs(d))
      sg == IF d < 0 THEN -1 ELSE 1
  IN V("float64", <<sg * (n \div g), sg * (d \div g)>>)
Str(cs) == V("string", cs)
Bytes(arr, off, len, cap) == V("slice", <<arr, off, len, cap>>)

IntKinds == {"int", "int8", "int16", "int32", "int64"}
UintKinds == {"uint", "uint8", "uint16", "uint32", "uint64"}
FloatKinds == {"float32", "float64"}

NL == 10
SP == 32

--------------------------------------------------------------------------
(* Results.  err is the error text as a sequence of its parts; nil is <<>> *)

Ok(v, s) == [st |-> "ok", v |-> v, err |-> <<>>, s |-> s]
Err(e, s) == [st |-> "err", v |-> Nil, err |-> e, s |-> s]
Panic(pv, s) == [st |-> "panic", v |-> Nil, err |-> pv, s |-> s]

\* The trace: what was entered or left, where, with which value and error.
Emit(s, ev, at, arg) ==
  [s EXCEPT !.log =
     Append(@, [ev |-> ev, at |-> at, arg |-> arg, err |-> <<>>, st |-> "ok"])]
\* r with the event that it was returned at `at` added to its trace
EmitRet(r, ev, at) ==
  [r EXCEPT !.s.log =
     Append(@, [ev |-> ev, at |-> at, arg |-> r.v, err |-> r.err,
                st |-> r.st])]

RECURSIVE LexCmp(_, _)
LexCmp(x, y) ==
  IF x = <<>> THEN (IF y = <<>> THEN 0 ELSE -1)
  ELSE IF y = <<>> THEN 1
  ELSE IF Head(x) < Head(y) THEN -1
  ELSE IF Head(x) > Head(y) THEN 1
  ELSE LexCmp(Tail(x), Tail(y))

--------------------------------------------------------------------------
(* Text helpers *)

\* strings.Split(str, "\n")
RECURSIVE SplitLines(_)
SplitLines(str) ==
  IF \A i \in DOMAIN str : str[i] # NL THEN <<str>>
  ELSE LET i == CHOOSE j \in DOMAIN str :
                  str[j] = NL /\ \A h \in 1..(j - 1) : str[h] # NL
       IN <<SubSeq(str, 1, i - 1)>> \o SplitLines(SubSeq(str, i + 1, Len(str)))

\* strings.Repeat(" ", n)
Spaces(n) == [i \in 1..n |-> SP]

RECURSIVE indentLines(_, _, _)
indentLines(lines, i, prefix) ==
  IF i > Len(lines) THEN <<>>
  ELSE (IF i # 1
          THEN <<NL>> \o (IF lines[i] # <<>> THEN prefix ELSE <<>>)
          ELSE <<>>)
       \o lines[i] \o indentLines(lines, i + 1, prefix)

\* addIndent that takes the width of the whole of preStr, not of its last line
addIndentWholePrefix(t, str, preStr) ==
  IF t.executingLeftArrowExprArg
       /\ (\E i \in DOMAIN str : str[i] = NL) /\ preStr # <<>>
    THEN indentLines(SplitLines(str), 1, Spaces(Len(preStr)))
    ELSE str

addIndent(t, str, preStr) ==
  IF t.executingLeftArrowExprArg
       /\ (\E i \in DOMAIN str : str[i] = NL) /\ preStr # <<>>
    THEN LET lines == SplitLines(preStr)
             prefix == Spaces(Len(lines[Len(lines)]))
         IN indentLines(SplitLines(str), 1, prefix)
    ELSE str

--------------------------------------------------------------------------
(* Byte slices *)

BytesOf(h, v) == SubSeq(h[v.p[1]], v.p[2] + 1, v.p[2] + v.p[3])

\* append(xb, yb...): writes into xb's backing array when its capacity
\* suffices, allocates a new array otherwise.  Returns the slice and the heap.
goAppend(h, xb, yb) ==
  LET ys == BytesOf(h, yb)
      arr == xb.p[1]
      off == xb.p[2]
      len == xb.p[3]
      cap == xb.p[4]
      n == Len(ys)
  IN IF len + n <= cap
       THEN [v |-> Bytes(arr, off, len + n, cap),
             h |-> [h EXCEPT ![arr] =
                      [i \in DOMAIN @ |->
                         IF i > off + len /\ i <= off + len + n
                           THEN ys[i - off - len] ELSE @[i]]]]
       ELSE [v |-> Bytes(Len(h) + 1, 0, len + n, len + n),
             h |-> Append(h, BytesOf(h, xb) \o ys)]

--------------------------------------------------------------------------
(* Equality *)

comparable(x) ==
  x.k \in IntKinds \cup UintKinds \cup FloatKinds \cup {"bool", "string", "ptr"}

reflectEqual(x, y) == x.p = y.p

\* equal returns (result, ok)
equal(h, x, y) ==
  IF x.k = "invalid" THEN <<TRUE, TRUE>>
  ELSE IF comparable(x) THEN <<reflectEqual(x, y), TRUE>>
  ELSE IF x.k = "slice" THEN <<BytesOf(h, x) = BytesOf(h, y), TRUE>>
  ELSE <<FALSE, FALSE>>

GoString(v) == ToString(v.p)

--------------------------------------------------------------------------
(* executeBinaryExpr after both operands were evaluated (lines 342-541) *)

notDefinedOn(op, x, s) ==
  Err(<<"operator ", op, " not defined on ", GoString(x),
        " (value of type ", x.k, ")">>, s)

\* int64 operands (lines 366-393)
intAdd(xi, yi, s) ==
  IF (yi > 0 /\ xi > MaxInt64 - yi) \/ (yi < 0 /\ xi < MinInt64 - yi)
    THEN Err(<<ToString(xi), " + ", ToString(yi), " overflows int">>, s)
    ELSE Ok(Int64(WrapInt64(xi + yi)), s)

intSub(xi, yi, s) ==
  IF (yi < 0 /\ xi > MaxInt64 + yi) \/ (yi > 0 /\ xi < MinInt64 + yi)
    THEN Err(<<ToString(xi), " - ", ToString(yi), " overflows int">>, s)
    ELSE Ok(Int64(WrapInt64(xi - yi)), s)

\* intMul without the check of a negative times a negative
intMulNoNegNeg(xi, yi, s) ==
  IF (xi > 0 /\ yi > 0 /\ xi > TruncQuo(MaxInt64, yi))
       \/ (xi > 0 /\ yi < 0 /\ yi < TruncQuo(MinInt64, xi))
       \/ (xi < 0 /\ yi > 0 /\ xi < TruncQuo(MinInt64, yi))
    THEN Err(<<ToString(xi), " * ", ToString(yi), " overflows int">>, s)
    ELSE Ok(Int64(WrapInt64(xi * yi)), s)

intMul(xi, yi, s) ==
  IF (xi > 0 /\ yi > 0 /\ xi > TruncQuo(MaxInt64, yi))
       \/ (xi < 0 /\ yi < 0 /\ xi < TruncQuo(MaxInt64, yi))
       \/ (xi > 0 /\ yi < 0 /\ yi < TruncQuo(MinInt64, xi))
       \/ (xi < 0 /\ yi > 0 /\ xi < TruncQuo(MinInt64, yi))
    THEN Err(<<ToString(xi), " * ", ToString(yi), " overflows int">>, s)
    ELSE Ok(Int64(WrapInt64(xi * yi)), s)

\* intQuo without the check of the divisor: the division itself panics
intQuoUnchecked(xi, yi, s) ==
  IF yi = 0 THEN Panic(<<"runtime error: integer divide by zero">>, s)
  ELSE Ok(Int64(WrapInt64(TruncQuo(xi, yi))), s)

intQuo(xi, yi, s) ==
  IF yi = 0 THEN Err(<<"division by 0">>, s)
  ELSE Ok(Int64(WrapInt64(TruncQuo(xi, yi))), s)

intRem(xi, yi, s) ==
  IF yi = 0 THEN Err(<<"division by 0">>, s)
  ELSE Ok(Int64(WrapInt64(TruncRem(xi, yi))), s)

binaryInt(op, xi, yi, x, s) ==
  CASE op = "+" -> intAdd(xi, yi, s)
    [] op = "-" -> intSub(xi, yi, s)
    [] op = "*" -> intMul(xi, yi, s)
    [] op = "/" -> intQuo(xi, yi, s)
    [] op = "%" -> intRem(xi, yi, s)
    [] op = "<" -> Ok(Bool(xi < yi), s)
    [] op = "<=" -> Ok(Bool(xi <= yi), s)
    [] op = ">" -> Ok(Bool(xi > yi), s)
    [] op = ">=" -> Ok(Bool(xi >= yi), s)
    [] OTHER -> notDefinedOn(op, x, s)

\* uint64 operands (lines 411-435)
uintAdd(xi, yi, s) ==
  IF yi > 0 /\ xi > MaxUint64 - yi
    THEN Err(<<ToString(xi), " + ", ToString(yi), " overflows uint">>, s)
    ELSE Ok(Uint64(WrapUint64(xi + yi)), s)

uintSub(xi, yi, s) ==
  IF xi < yi
    THEN Err(<<ToString(xi), " - ", ToString(yi), " overflows uint">>, s)
    ELSE Ok(Uint64(WrapUint64(xi - yi)), s)

\* math.MaxUint64/yi is evaluated first: a zero yi panics
uintMul(xi, yi, s) ==
  IF yi = 0 THEN Panic(<<"runtime error: integer divide by zero">>, s)
  ELSE IF xi > MaxUint64 \div yi
    THEN Err(<<ToString(xi), " * ", ToString(yi), " overflows uint">>, s)
    ELSE Ok(Uint64(WrapUint64(xi * yi)), s)

uintQuo(xi, yi, s) ==
  IF yi = 0 THEN Err(<<"division by 0">>, s)
  ELSE Ok(Uint64(xi \div yi), s)

uintRem(xi, yi, s) ==
  IF yi = 0 THEN Err(<<"division by 0">>, s)
  ELSE Ok(Uint64(xi % yi), s)

binaryUint(op, xi, yi, x, s) ==
  CASE op = "+" -> uintAdd(xi, yi, s)
    [] op = "-" -> uintSub(xi, yi, s)
    [] op = "*" -> uintMul(xi, yi, s)
    [] op = "/" -> uintQuo(xi, yi, s)
    [] op = "%" -> uintRem(xi, yi, s)
    [] op = "<" -> Ok(Bool(xi < yi), s)
    [] op = "<=" -> Ok(Bool(xi <= yi), s)
    [] op = ">" -> Ok(Bool(xi > yi), s)
    [] op = ">=" -> Ok(Bool(xi >= yi), s)
    [] OTHER -> notDefinedOn(op, x, s)

\* floats are modelled as exact rationals <<num, den>>, den > 0
binaryFloat(op, xf, yf, x, s) ==
  LET a == xf[1]
      b == xf[2]
      c == yf[1]
      d == yf[2]
  IN CASE op = "+" -> Ok(Float64(a * d + c * b, b * d), s)
       [] op = "-" -> Ok(Float64(a * d - c * b, b * d), s)
       [] op = "*" -> Ok(Float64(a * c, b * d), s)
       [] op = "/" ->
            IF c = 0 THEN Err(<<"division by 0">>, s)
            ELSE Ok(Float64(a * d, b * c), s)
       [] op = "<" -> Ok(Bool(a * d < c * b), s)
       [] op = "<=" -> Ok(Bool(a * d <= c * b), s)
       [] op = ">" -> Ok(Bool(a * d > c * b), s)
       [] op = ">=" -> Ok(Bool(a * d >= c * b), s)
       [] OTHER -> notDefinedOn(op, x, s)

binaryBool(op, xb, yb, x, s) ==
  CASE op = "&&" -> Ok(Bool(xb /\ yb), s)
    [] op = "||" -> Ok(Bool(xb \/ yb), s)
    [] OTHER -> notDefinedOn(op, x, s)

binaryString(t, e, xs, ys, x, s) ==
  CASE e.Op = "+" ->
         IF t.executingLeftArrowExprArg /\ e.Y.type = "ParameterExpr"
           THEN Ok(Str(xs \o addIndent(t, ys, xs)), s)
           ELSE Ok(Str(xs \o ys), s)
    [] e.Op = "<" -> Ok(Bool(LexCmp(xs, ys) < 0), s)
    [] e.Op = "<=" -> Ok(Bool(LexCmp(xs, ys) <= 0), s)
    [] e.Op = ">" -> Ok(Bool(LexCmp(xs, ys) > 0), s)
    [] e.Op = ">=" -> Ok(Bool(LexCmp(xs, ys) >= 0), s)
    [] OTHER -> notDefinedOn(e.Op, x, s)

binaryBytes(op, x, y, s) ==
  LET xb == BytesOf(s.heap, x)
      yb == BytesOf(s.heap, y)
  IN CASE op = "+" ->
            LET a == goAppend(s.heap, x, y)
            IN Ok(a.v, [s EXCEPT !.heap = a.h])
       [] op = "<" -> Ok(Bool(LexCmp(xb, yb) < 0), s)
       [] op = "<=" -> Ok(Bool(LexCmp(xb, yb) <= 0), s)
       [] op = ">" -> Ok(Bool(LexCmp(xb, yb) > 0), s)
       [] op = ">=" -> Ok(Bool(LexCmp(xb, yb) >= 0), s)
       [] OTHER -> notDefinedOn(op, x, s)

binaryKind(t, e, x, y, s) ==
  CASE x.k \in IntKinds -> binaryInt(e.Op, x.p[1], y.p[1], x, s)
    [] x.k \in UintKinds -> binaryUint(e.Op, x.p[1], y.p[1], x, s)
    [] x.k \in FloatKinds -> binaryFloat(e.Op, x.p, y.p, x, s)
    [] x.k = "bool" -> binaryBool(e.Op, x.p[1] = 1, y.p[1] = 1, x, s)
    [] x.k = "string" -> binaryString(t, e, x.p, y.p, x, s)
    [] x.k = "slice" -> binaryBytes(e.Op, x, y, s)
    [] x.k = "invalid" ->
         Err(<<"operator ", e.Op, " not defined on nil">>, s)
    [] OTHER -> notDefinedOn(e.Op, x, s)

binaryOp(t, e, x, y, s) ==
  IF x.k # y.k
    THEN Err(<<GoString(x), " ", e.Op, " ", GoString(y),
               ": mismatched types ", x.k, " and ", y.k>>, s)
  ELSE IF e.Op = "==" /\ equal(s.heap, x, y)[2]
    THEN Ok(Bool(equal(s.heap, x, y)[1]), s)
  ELSE IF e.Op = "!=" /\ equal(s.heap, x, y)[2]
    THEN Ok(Bool(~equal(s.heap, x, y)[1]), s)
  ELSE binaryKind(t, e, x, y, s)

--------------------------------------------------------------------------
(* Expression nodes (package ast).  Names and literal texts are character  *)
(* sequences.                                                              *)

NoExpr == [type |-> "nil"]
BasicLit(kind, value) == [type |-> "BasicLit", Kind |-> kind, Value |-> value]
Ident(name) == [type |-> "Ident", Name |-> name]
SelectorExpr(x, sel) == [type |-> "SelectorExpr", X |-> x, Sel |-> Ident(sel)]
IndexExpr(x, index) == [type |-> "IndexExpr", X |-> x, Index |-> index]
ParameterExpr(x, quoted) ==
  [type |-> "ParameterExpr", X |-> x, Quoted |-> quoted]
ParenExpr(x) == [type |-> "ParenExpr", X |-> x]
UnaryExpr(op, x) == [type |-> "UnaryExpr", Op |-> op, X |-> x]
BinaryExpr(op, x, y) == [type |-> "BinaryExpr", Op |-> op, X |-> x, Y |-> y]
ConditionalExpr(c, x, y) ==
  [type |-> "ConditionalExpr", Condition |-> c, X |-> x, Y |-> y]
CallExpr(fun, args) == [type |-> "CallExpr", Fun |-> fun, Args |-> args]
LeftArrowExpr(fun, arg) == [type |-> "LeftArrowExpr", Fun |-> fun, Arg |-> arg]
DefinedExpr(arg) == [type |-> "DefinedExpr", Arg |-> arg]

--------------------------------------------------------------------------
(* Number <-> text *)

IsDigit(c) == c >= 48 /\ c <= 57

RECURSIVE Digits(_)
Digits(n) == IF n < 10 THEN <<48 + n>> ELSE Digits(n \div 10) \o <<48 + (n % 10)>>

\* %d
FormatInt(n) == IF n < 0 THEN <<45>> \o Digits(-n) ELSE Digits(n)

RECURSIVE DigitsValue(_)
DigitsValue(cs) ==
  IF cs = <<>> THEN 0
  ELSE 10 * DigitsValue(SubSeq(cs, 1, Len(cs) - 1)) + (cs[Len(cs)] - 48)

\* strconv.ParseInt(text, 0, 64) on decimal literals: (value, ok)
ParseInt(cs) ==
  IF cs = <<>> \/ (\E i \in DOMAIN cs : ~IsDigit(cs[i])) THEN <<0, FALSE>>
  ELSE IF DigitsValue(cs) > MaxInt64 THEN <<0, FALSE>>
  ELSE <<DigitsValue(cs), TRUE>>

\* strconv.ParseFloat(text, 64) on literals  digits "." digits
ParseFloat(cs) ==
  IF \E i \in DOMAIN cs :
       /\ cs[i] = 46
       /\ i > 1
       /\ \A j \in DOMAIN cs : j # i => IsDigit(cs[j])
    THEN LET i == CHOOSE j \in DOMAIN cs : cs[j] = 46
             frac == SubSeq(cs, i + 1, Len(cs))
             scale == DigitsValue(<<49>> \o [j \in 1..Len(frac) |-> 48])
         IN <<Float64(DigitsValue(SubSeq(cs, 1, i - 1)) * scale
                        + DigitsValue(frac), scale), TRUE>>
    ELSE <<Nil, FALSE>>

T_true == <<116, 114, 117, 101>>
T_false == <<102, 97, 108, 115, 101>>

executeBasicLit(lit, s) ==
  CASE lit.Kind = "STRING" -> Ok(Str(lit.Value), s)
    [] lit.Kind = "INT" ->
         IF ParseInt(lit.Value)[2]
           THEN Ok(Int64(ParseInt(lit.Value)[1]), s)
           ELSE Err(<<"invalid AST: is not an integer">>, s)
    [] lit.Kind = "FLOAT" ->
         IF ParseFloat(lit.Value)[2]
           THEN Ok(ParseFloat(lit.Value)[1], s)
           ELSE Err(<<"invalid AST: is not a float">>, s)
    [] lit.Kind = "BOOL" ->
         IF lit.Value = T_true THEN Ok(Bool(TRUE), s)
         ELSE IF lit.Value = T_false THEN Ok(Bool(FALSE), s)
         ELSE Err(<<"invalid bool literal">>, s)
    [] OTHER -> Err(<<"unknown basic literal">>, s)

--------------------------------------------------------------------------
(* Value adapter: lookup.  A data tree d is [root |-> value, objs |-> containers];  *)
(* a map is a sequence of <<key, value>> pairs in key order, a sequence is *)
(* a sequence of values.                                                   *)

errNotDefined == "errNotDefined"

\* errors.As(err, &notDefined)
IsNotDefined(err) == \E i \in DOMAIN err : err[i] = errNotDefined

extractByKey(name, v, d) ==
  IF v.k = "map" /\ \E i \in DOMAIN d.objs[v.p[1]] :
                        d.objs[v.p[1]][i][1] = name
    THEN LET m == d.objs[v.p[1]]
             i == CHOOSE j \in DOMAIN m : m[j][1] = name
         IN [v |-> m[i][2], err |-> <<>>]
    ELSE [v |-> Nil, err |-> <<errNotDefined, " not defined">>]

extractByIndex(idx, v, d) ==
  IF idx.k \notin IntKinds \cup UintKinds
    THEN [v |-> Nil, err |-> <<"index must be an integer">>]
  ELSE IF v.k = "seq" /\ idx.p[1] >= 0 /\ idx.p[1] < Len(d.objs[v.p[1]])
    THEN [v |-> d.objs[v.p[1]][idx.p[1] + 1], err |-> <<>>]
  ELSE [v |-> Nil, err |-> <<errNotDefined, " not defined">>]

RECURSIVE extract(_, _)
extract(node, d) ==
  CASE node.type = "Ident" -> extractByKey(node.Name, d.root, d)
    [] node.type = "SelectorExpr" ->
         LET x == extract(node.X, d)
         IN IF x.err # <<>> THEN x
            ELSE extractByKey(node.Sel.Name, x.v, d)
    [] node.type = "IndexExpr" ->
         LET x == extract(node.X, d)
             i == extract(node.Index, d)
         IN IF x.err # <<>> THEN x
            ELSE IF i.err # <<>> THEN i
            ELSE extractByIndex(i.v, x.v, d)
    [] node.type = "BasicLit" ->
         LET r == executeBasicLit(node, <<>>)
         IN [v |-> r.v, err |-> r.err]
    [] OTHER -> [v |-> Nil, err |-> <<"invalid operation">>]

lookup(node, d, s) ==
  LET r == extract(node, d)
  IN IF r.err # <<>> THEN Err(r.err, s) ELSE Ok(r.v, s)

--------------------------------------------------------------------------
(* Function stash *)

\* fmt.Sprintf("func-%d", n)
FuncName(n) == <<102, 117, 110, 99, 45>> \o FormatInt(n)

\* funcStash.save on the stash at address a: (name, world)
save(s, a, f) ==
  LET name == FuncName(Cardinality(DOMAIN s.stash[a]))
  IN [name |-> name,
      s |-> [Emit(s, "save", <<>>, f) EXCEPT
                      !.stash[a] =
                        [n \in DOMAIN @ \cup {name} |->
                           IF n = name THEN f ELSE @[n]],
                      !.saved = Append(@, f)]]

--------------------------------------------------------------------------
(* yaml.Marshal, for the values the d trees hold: (text, ok) *)

RECURSIVE MarshalSeq(_, _)
MarshalScalar(v) ==
  CASE v.k \in IntKinds \cup UintKinds -> <<FormatInt(v.p[1]), TRUE>>
    [] v.k = "bool" -> <<IF v.p[1] = 1 THEN T_true ELSE T_false, TRUE>>
    [] v.k = "string" -> <<v.p, TRUE>>
    [] v.k = "invalid" -> <<<<110, 117, 108, 108>>, TRUE>>
    [] OTHER -> <<<<>>, FALSE>>

\* a sequence of scalars: "- x\n- y\n"
MarshalSeq(vs, i) ==
  IF i > Len(vs) THEN <<>>
  ELSE <<45, SP>> \o MarshalScalar(vs[i])[1] \o <<NL>> \o MarshalSeq(vs, i + 1)

RECURSIVE MarshalMap(_, _)
\* a map of scalars: "k: x\nl: y\n"
MarshalMap(m, i) ==
  IF i > Len(m) THEN <<>>
  ELSE m[i][1] \o <<58, SP>> \o MarshalScalar(m[i][2])[1] \o <<NL>>
       \o MarshalMap(m, i + 1)

yamlMarshal(v, d) ==
  CASE v.k = "seq" ->
         IF \A i \in DOMAIN d.objs[v.p[1]] :
              MarshalScalar(d.objs[v.p[1]][i])[2]
           THEN <<MarshalSeq(d.objs[v.p[1]], 1), TRUE>>
           ELSE <<<<>>, FALSE>>
    [] v.k = "map" ->
         IF \A i \in DOMAIN d.objs[v.p[1]] :
              MarshalScalar(d.objs[v.p[1]][i][2])[2]
           THEN <<MarshalMap(d.objs[v.p[1]], 1), TRUE>>
           ELSE <<<<>>, FALSE>>
    [] OTHER ->
         IF MarshalScalar(v)[2]
           THEN <<MarshalScalar(v)[1] \o <<NL>>, TRUE>>
           ELSE <<<<>>, FALSE>>

\* strings.TrimSuffix(text, "\n")
TrimNewline(cs) ==
  IF cs # <<>> /\ cs[Len(cs)] = NL THEN SubSeq(cs, 1, Len(cs) - 1) ELSE cs

--------------------------------------------------------------------------
(* Host functions and objects the data trees refer to.                     *)
(* A function value is V("func", <<id>>), id indexing Funcs; an object is  *)
(* V("ptr", <<id>>), id indexing Structs.                                  *)

\* In: formal parameter types; NumOut: number of results; body: what the
\* function does when called.
Funcs ==
  << [In |-> <<>>, Variadic |-> FALSE, NumOut |-> 1, body |-> "one"],
     [In |-> <<>>, Variadic |-> FALSE, NumOut |-> 2, body |-> "fail"],
     [In |-> <<>>, Variadic |-> FALSE, NumOut |-> 1, body |-> "boom"],
     [In |-> <<"int64">>, Variadic |-> FALSE, NumOut |-> 1, body |-> "id"],
     [In |-> <<"int64", "int64">>, Variadic |-> TRUE, NumOut |-> 1,
      body |-> "count"],
     [In |-> <<"ptr">>, Variadic |-> FALSE, NumOut |-> 1, body |-> "one"] >>

\* tfunc: the object implements Func (Exec, UnmarshalArg); methods: its
\* method set as <<name, function id>> pairs.
Structs ==
  << [tfunc |-> TRUE, unmarshal |-> "decode", exec |-> "echo", methods |-> <<>>],
     [tfunc |-> TRUE, unmarshal |-> "fail", exec |-> "echo", methods |-> <<>>],
     [tfunc |-> TRUE, unmarshal |-> "panic", exec |-> "echo", methods |-> <<>>],
     [tfunc |-> TRUE, unmarshal |-> "decode", exec |-> "fail", methods |-> <<>>],
     [tfunc |-> TRUE, unmarshal |-> "decode", exec |-> "panic", methods |-> <<>>],
     [tfunc |-> TRUE, unmarshal |-> "fixed", exec |-> "echo", methods |-> <<>>],
     [tfunc |-> FALSE, unmarshal |-> "none", exec |-> "none",
      methods |-> << <<<<109>>, 6>> >>] >>

Func(id) == V("func", <<id>>)
Ptr(id) == V("ptr", <<id>>)

\* reflectutil.Elem: pointers to scalars are not modelled, so a value's Elem
\* is the value, and an object's Elem is the struct it points to.
Elem(v) == IF v.k = "ptr" THEN V("struct", v.p) ELSE v

\* fn.Call(args): [st |-> "ret" | "panic", v, err, s]
callFunc(id, args, at, s) ==
  LET s1 == Emit(s, "call", at, Func(id))
      f == Funcs[id]
  IN CASE f.body = "one" -> [st |-> "ret", v |-> Int64(1), err |-> <<>>, s |-> s1]
       [] f.body = "fail" ->
            [st |-> "ret", v |-> Int64(0), err |-> <<"boom">>, s |-> s1]
       [] f.body = "boom" ->
            [st |-> "panic", v |-> Nil, err |-> <<"boom">>, s |-> s1]
       [] f.body = "id" -> [st |-> "ret", v |-> args[1], err |-> <<>>, s |-> s1]
       [] OTHER ->
            [st |-> "ret", v |-> Int64(Len(args)), err |-> <<>>, s |-> s1]

\* reflectutil.Convert(requiredType, v): [v, ok, type]
Convert(required, v) ==
  IF v.k = "invalid" THEN [v |-> v, ok |-> FALSE, type |-> v.k]
  ELSE IF required = "interface" THEN [v |-> v, ok |-> TRUE, type |-> required]
  ELSE IF v.k = required THEN [v |-> v, ok |-> TRUE, type |-> required]
  ELSE IF v.k \in IntKinds /\ required \in IntKinds
    THEN [v |-> V(required, v.p), ok |-> TRUE, type |-> required]
  ELSE [v |-> v, ok |-> FALSE, type |-> v.k]

requiredFuncArgType(f, argIdx) ==
  IF ~f.Variadic THEN f.In[argIdx + 1]
  ELSE IF argIdx < Len(f.In) - 1 THEN f.In[argIdx + 1]
  ELSE f.In[Len(f.In)]

\* getMethod(in, name): [st |-> "ok" | "none" | "panic", r, fn]
getMethod(in, name) ==
  LET r == Elem(in)
  IN IF r.k = "invalid" THEN [st |-> "panic", r |-> Nil, fn |-> Nil]
     ELSE IF r.k = "struct"
            /\ \E i \in DOMAIN Structs[r.p[1]].methods :
                 Structs[r.p[1]].methods[i][1] = name
       THEN LET ms == Structs[r.p[1]].methods
                i == CHOOSE j \in DOMAIN ms : ms[j][1] = name
            IN [st |-> "ok", r |-> in, fn |-> Func(ms[i][2])]
       ELSE [st |-> "none", r |-> Nil, fn |-> Nil]

--------------------------------------------------------------------------
(* The argument of a left-arrow call, decoded and restored (lines 781-799): *)
(* [v, err].  A scalar text decodes to the scalar; '{{func-N}}' decodes to  *)
(* a string that is restored to the stashed function; a document that is   *)
(* not a scalar is kept as V("decoded", text).                             *)

Placeholder(name) == <<123, 123>> \o name \o <<125, 125>>
Quote(cs) == <<39>> \o cs \o <<39>>

decodeArg(argStr, st) ==
  IF \E n \in DOMAIN st : argStr = Quote(Placeholder(n))
    THEN [v |-> st[CHOOSE n \in DOMAIN st : argStr = Quote(Placeholder(n))],
          err |-> <<>>]
  ELSE IF Len(argStr) >= 2 /\ SubSeq(argStr, 1, 2) = <<123, 123>>
    THEN [v |-> Nil, err |-> <<"yaml: cannot decode">>]
  ELSE IF Len(argStr) >= 3 /\ SubSeq(argStr, 1, 3) = <<39, 123, 123>>
    THEN [v |-> Nil, err |-> <<errNotDefined, " not defined">>]
  ELSE IF ParseInt(argStr)[2] THEN [v |-> Uint64(ParseInt(argStr)[1]), err |-> <<>>]
  ELSE IF argStr = T_true THEN [v |-> Bool(TRUE), err |-> <<>>]
  ELSE IF argStr = T_false THEN [v |-> Bool(FALSE), err |-> <<>>]
  ELSE IF argStr = <<>> THEN [v |-> Nil, err |-> <<"EOF">>]
  ELSE IF \E i \in DOMAIN argStr : argStr[i] \in {NL, 58}
    THEN [v |-> V("decoded", argStr), err |-> <<>>]
  ELSE [v |-> Str(argStr), err |-> <<>>]

--------------------------------------------------------------------------
(* The evaluator.  t is the template handle, at the position of the node   *)
(* in the tree of the top-level template (the path of child numbers), s    *)
(* the world [heap, stash, log, saved].  A result that is not "ok" is      *)
(* returned to the caller as the code's `if err != nil { return nil, err }`*)
(* does; a panic unwinds the same way up to Execute.                       *)

RECURSIVE executeExpr(_, _, _, _, _)
RECURSIVE executeArgs(_, _, _, _, _, _, _, _)
RECURSIVE Execute(_, _, _, _)

\* executeParameterExpr once e.X returned r (lines 231-253)
parameterValue(t, e, d, r) ==
  IF r.st # "ok" THEN r
  ELSE IF t.executingLeftArrowExprArg
    THEN IF Elem(r.v).k = "func"
           THEN LET sv == save(r.s, t.argFuncs, r.v)
                IN IF e.Quoted
                     THEN Ok(Str(Quote(Placeholder(sv.name))), sv.s)
                     ELSE Ok(Str(Placeholder(sv.name)), sv.s)
           ELSE IF yamlMarshal(r.v, d)[2]
             THEN Ok(Str(TrimNewline(yamlMarshal(r.v, d)[1])), r.s)
             ELSE Err(<<"yaml: cannot marshal">>, r.s)
    ELSE r

executeParameterExpr(t, e, d, at, s) ==
  IF e.X = NoExpr THEN Ok(Str(<<>>), s)
  ELSE parameterValue(t, e, d, executeExpr(t, e.X, d, at \o <<1>>, s))

\* executeUnaryExpr once e.X returned r (lines 258-328)
unaryValue(e, r) ==
  LET v == Elem(r.v)
      n == v.p[1]
      unknown == Err(<<"unknown operation: operator ", e.Op,
                       " not defined on ", r.v.k>>, r.s)
  IN IF r.st # "ok" THEN r
     ELSE IF e.Op = "-"
       THEN CASE v.k \in IntKinds ->
                   IF n = MinInt64
                     THEN Err(<<"-(", ToString(n), ") overflows ", v.k>>, r.s)
                     ELSE Ok(V(v.k, <<-n>>), r.s)
              [] v.k \in {"uint", "uint32", "uint64"} ->
                   IF n > -MinInt64
                     THEN Err(<<"-", ToString(n), " overflows int">>, r.s)
                     ELSE Ok(V("int", <<-n>>), r.s)
              [] v.k \in {"uint8", "uint16"} -> Ok(V("int", <<-n>>), r.s)
              [] v.k \in FloatKinds -> Ok(V(v.k, <<-v.p[1], v.p[2]>>), r.s)
              [] OTHER -> unknown
     ELSE IF e.Op = "!" /\ v.k = "bool" THEN Ok(Bool(n = 0), r.s)
     ELSE unknown

executeUnaryExpr(t, e, d, at, s) ==
  unaryValue(e, executeExpr(t, e.X, d, at \o <<1>>, s))

\* executeBinaryExpr once e.Y returned y (lines 338-346)
binaryAfterY(t, e, at, x, y) ==
  IF y.st # "ok" THEN y
  ELSE binaryOp(t, e, x.v, y.v, Emit(y.s, "apply", at, Nil))

\* binaryAfterX with short-circuiting && and ||: the right operand is
\* skipped when the left one decides the result
binaryAfterXShortCircuit(t, e, d, at, x) ==
  IF x.st # "ok" THEN x
  ELSE IF x.v.k = "bool" /\ ((e.Op = "||" /\ x.v.p[1] = 1)
                               \/ (e.Op = "&&" /\ x.v.p[1] = 0))
    THEN Ok(x.v, Emit(x.s, "apply", at, Nil))
  ELSE binaryAfterY(t, e, at, x, executeExpr(t, e.Y, d, at \o <<2>>, x.s))

\* executeBinaryExpr once e.X returned x (lines 334-337)
binaryAfterX(t, e, d, at, x) ==
  IF x.st # "ok" THEN x
  ELSE binaryAfterY(t, e, at, x, executeExpr(t, e.Y, d, at \o <<2>>, x.s))

executeBinaryExpr(t, e, d, at, s) ==
  binaryAfterX(t, e, d, at, executeExpr(t, e.X, d, at \o <<1>>, s))

\* both branches x and y were evaluated; c selects
selectBranch(c, x, y) ==
  IF x.st # "ok" THEN x
  ELSE IF y.st # "ok" THEN y
  ELSE IF c.v.p[1] = 1 THEN [x EXCEPT !.s = y.s]
  ELSE y

evaluateBranches(t, e, d, at, c, x) ==
  selectBranch(c, x, executeExpr(t, e.Y, d, at \o <<3>>, x.s))

\* conditionalAfter evaluating both branches before it selects one
conditionalAfterBoth(t, e, d, at, c) ==
  IF c.st # "ok" THEN c
  ELSE IF c.v.k # "bool"
    THEN Err(<<"invalid operation: operator ? not defined on ",
               GoString(c.v), " (value of type ", c.v.k, ")">>, c.s)
  ELSE evaluateBranches(t, e, d, at, c,
                        executeExpr(t, e.X, d, at \o <<2>>, c.s))

\* executeConditionalExpr once e.Condition returned c (lines 567-577)
conditionalAfter(t, e, d, at, c) ==
  IF c.st # "ok" THEN c
  ELSE IF c.v.k # "bool"
    THEN Err(<<"invalid operation: operator ? not defined on ",
               GoString(c.v), " (value of type ", c.v.k, ")">>, c.s)
  ELSE IF c.v.p[1] = 1 THEN executeExpr(t, e.X, d, at \o <<2>>, c.s)
  ELSE executeExpr(t, e.Y, d, at \o <<3>>, c.s)

executeConditionalExpr(t, e, d, at, s) ==
  conditionalAfter(t, e, d, at, executeExpr(t, e.Condition, d, at \o <<1>>, s))

\* one round of executeArgs' loop once the argument returned a
\* (lines 738-753): [st, vs, err, s]
argConverted(t, f, vs, args, i, d, at, a) ==
  LET requiredType == requiredFuncArgType(f, Len(vs))
      c == Convert(requiredType, a.v)
      v == IF c.ok THEN c.v ELSE a.v
      typ == IF c.ok THEN c.type ELSE a.v.k
  IN IF a.st # "ok" THEN [st |-> a.st, vs |-> <<>>, err |-> a.err, s |-> a.s]
     ELSE IF v.k = "invalid"
       THEN [st |-> "err", vs |-> <<>>, s |-> a.s,
             err |-> <<"can't use nil as ", requiredType, " in arguments">>]
     ELSE IF typ # requiredType
       THEN [st |-> "err", vs |-> <<>>, s |-> a.s,
             err |-> <<"can't use ", typ, " as ", requiredType, " in arguments">>]
     ELSE executeArgs(t, f, Append(vs, v), args, i + 1, d, at, a.s)

\* executeArgs from argument i on: [st, vs, err, s]
executeArgs(t, f, vs, args, i, d, at, s) ==
  IF i > Len(args) THEN [st |-> "ok", vs |-> vs, err |-> <<>>, s |-> s]
  ELSE argConverted(t, f, vs, args, i, d, at,
                    executeExpr(t, args[i], d, at \o <<1 + i>>, s))

\* what executeFuncCall returns for the results vs of fn.Call (lines 688-710)
callResults(f, vs) ==
  IF vs.st = "panic" THEN Panic(vs.err, vs.s)
  ELSE IF f.NumOut = 1 THEN Ok(vs.v, vs.s)
  ELSE IF f.NumOut = 2
    THEN IF vs.err # <<>> THEN Err(vs.err, vs.s) ELSE Ok(vs.v, vs.s)
  ELSE Err(<<"function should return a value or a value and an error">>, vs.s)

\* executeFuncCall once executeArgs returned as (lines 683-687)
callWithArgs(fn, at, as) ==
  IF as.st = "err" THEN Err(as.err, as.s)
  ELSE IF as.st = "panic" THEN Panic(as.err, as.s)
  ELSE callResults(Funcs[fn.p[1]], callFunc(fn.p[1], as.vs, at, as.s))

\* callResolved without the arity check of variadic functions
callResolvedAnyVariadic(t, call, fn, args0, d, at, s) ==
  IF fn.k # "func" THEN Err(<<"not function">>, s)
  ELSE
    LET f == Funcs[fn.p[1]]
        argNum == Len(args0) + Len(call.Args)
    IN IF ~f.Variadic /\ Len(f.In) # argNum
         THEN Err(<<"expected function argument number is ",
                    ToString(Len(f.In)), " but specified ",
                    ToString(argNum), " arguments">>, s)
       ELSE callWithArgs(fn, at,
                         executeArgs(t, f, args0, call.Args, 1, d, at, s))

\* executeFuncCall once the callee fn and the receiver (args0) are known
\* (lines 662-682)
callResolved(t, call, fn, args0, d, at, s) ==
  IF fn.k # "func" THEN Err(<<"not function">>, s)
  ELSE
    LET f == Funcs[fn.p[1]]
        argNum == Len(args0) + Len(call.Args)
    IN IF f.Variadic /\ argNum < Len(f.In) - 1
         THEN Err(<<"too few arguments to function">>, s)
       ELSE IF ~f.Variadic /\ Len(f.In) # argNum
         THEN Err(<<"expected function argument number is ",
                    ToString(Len(f.In)), " but specified ",
                    ToString(argNum), " arguments">>, s)
       ELSE callWithArgs(fn, at,
                         executeArgs(t, f, args0, call.Args, 1, d, at, s))

\* a call through a selector once selector.X returned x (lines 637-651)
callSelector(t, call, d, at, x) ==
  LET v == extract(call.Fun.Sel, [d EXCEPT !.root = x.v])
      m == getMethod(x.v, call.Fun.Sel.Name)
  IN IF x.st # "ok" THEN x
     ELSE IF v.err = <<>> THEN callResolved(t, call, v.v, <<>>, d, at, x.s)
     ELSE IF m.st = "panic"
       THEN Panic(<<"reflect: call of reflect.Value.Type on zero Value">>, x.s)
     ELSE IF m.st = "none" THEN Err(v.err, x.s)
     ELSE callResolved(t, call, m.fn, <<m.r>>, d, at, x.s)

\* any other call once call.Fun returned f (lines 654-660)
callValue(t, call, d, at, f) ==
  IF f.st # "ok" THEN f
  ELSE callResolved(t, call, f.v, <<>>, d, at, f.s)

executeFuncCall(t, call, d, at, s) ==
  IF call.Fun.type = "SelectorExpr"
    THEN callSelector(t, call, d, at,
                      executeExpr(t, call.Fun.X, d, at \o <<1, 1>>, s))
    ELSE callValue(t, call, d, at, executeExpr(t, call.Fun, d, at \o <<1>>, s))

\* executeLeftArrowExprArg whose child takes the mode of its parent
executeLeftArrowExprArgInherit(t, arg, d, at, s) ==
  Execute([str |-> <<>>, expr |-> arg,
           executingLeftArrowExprArg |-> t.executingLeftArrowExprArg,
           argFuncs |-> t.argFuncs], d, at, s)

executeLeftArrowExprArg(t, arg, d, at, s) ==
  Execute([str |-> <<>>, expr |-> arg, executingLeftArrowExprArg |-> TRUE,
           argFuncs |-> t.argFuncs], d, at, s)

\* what the object id makes of the decoded argument dec
unmarshalled(id, dec, s1) ==
  CASE Structs[id].unmarshal = "fail" -> Err(<<"unmarshal failed">>, s1)
    [] Structs[id].unmarshal = "panic" -> Panic(<<"unmarshal panicked">>, s1)
    [] Structs[id].unmarshal = "fixed" -> Ok(Int64(0), s1)
    [] OTHER -> IF dec.err # <<>> THEN Err(dec.err, s1) ELSE Ok(dec.v, s1)

\* f.UnmarshalArg(unmarshal) for the object id: [st, v, err, s]
UnmarshalArg(t, id, argStr, at, s) ==
  EmitRet(unmarshalled(id, decodeArg(argStr, s.stash[t.argFuncs]),
                       Emit(s, "UnmarshalArg", at, Str(argStr))),
          "UnmarshalArg.ret", at)

executed(id, arg, s1) ==
  CASE Structs[id].exec = "fail" -> Err(<<"exec failed">>, s1)
    [] Structs[id].exec = "panic" -> Panic(<<"exec panicked">>, s1)
    [] OTHER -> Ok(arg, s1)

\* f.Exec(arg) for the object id
Exec(id, arg, at, s) ==
  EmitRet(executed(id, arg, Emit(s, "Exec", at, arg)), "Exec.ret", at)

\* leftArrowExec that goes on to Exec when UnmarshalArg failed
leftArrowExecAlways(id, at, arg) ==
  IF arg.st = "panic" THEN arg
  ELSE Exec(id, arg.v, at, arg.s)

\* executeLeftArrowExpr once UnmarshalArg returned arg (lines 800-803)
leftArrowExec(id, at, arg) ==
  IF arg.st # "ok" THEN arg
  ELSE Exec(id, arg.v, at, arg.s)

\* executeLeftArrowExpr once the child template returned v (lines 774-781)
leftArrowUnmarshal(t, id, at, v) ==
  IF v.st # "ok" THEN v
  ELSE IF v.v.k # "string"
    THEN Err(<<"expect string but got ", v.v.k>>, v.s)
  ELSE leftArrowExec(id, at, UnmarshalArg(t, id, v.v.p, at, v.s))

\* executeLeftArrowExpr once e.Fun returned f (lines 760-773)
leftArrowAfterFun(t, e, d, at, f) ==
  IF f.st # "ok" THEN f
  ELSE IF ~(f.v.k = "ptr" /\ Structs[f.v.p[1]].tfunc)
    THEN Err(<<"expect template function but got *ast.LeftArrowExpr">>, f.s)
  ELSE IF e.Arg = NoExpr THEN Ok(V("lazyFunc", f.v.p), f.s)
  ELSE leftArrowUnmarshal(t, f.v.p[1], at,
                          executeLeftArrowExprArg(t, e.Arg, d, at \o <<2>>, f.s))

executeLeftArrowExpr(t, e, d, at, s) ==
  leftArrowAfterFun(t, e, d, at, executeExpr(t, e.Fun, d, at \o <<1>>, s))

\* definedOf that returns every lookup error, the not-defined one included
definedOfStrict(r, s) ==
  IF r.err # <<>> THEN Err(r.err, s) ELSE Ok(Bool(TRUE), s)

\* executeDefinedExpr once extract returned r (lines 809-816)
definedOf(r, s) ==
  IF r.err # <<>>
    THEN IF IsNotDefined(r.err) THEN Ok(Bool(FALSE), s) ELSE Err(r.err, s)
    ELSE Ok(Bool(TRUE), s)

executeDefinedExpr(t, e, d, at, s) ==
  IF e.Arg.type \in {"Ident", "SelectorExpr", "IndexExpr"}
    THEN definedOf(extract(e.Arg, d), s)
    ELSE Err(<<"invalid argument to defined()">>, s)

\* the wrapping of executeBinaryExpr's error (lines 172-176)
invalidOperation(b) ==
  IF b.st = "err" THEN Err(<<"invalid operation: ">> \o b.err, b.s) ELSE b

\* the type switch of executeExpr (lines 162-193)
executeNode(t, expr, d, at, s) ==
  CASE expr.type = "BasicLit" -> executeBasicLit(expr, s)
    [] expr.type = "ParameterExpr" -> executeParameterExpr(t, expr, d, at, s)
    [] expr.type = "ParenExpr" -> executeExpr(t, expr.X, d, at \o <<1>>, s)
    [] expr.type = "UnaryExpr" -> executeUnaryExpr(t, expr, d, at, s)
    [] expr.type = "BinaryExpr" ->
         invalidOperation(executeBinaryExpr(t, expr, d, at, s))
    [] expr.type = "ConditionalExpr" -> executeConditionalExpr(t, expr, d, at, s)
    [] expr.type \in {"Ident", "SelectorExpr", "IndexExpr"} -> lookup(expr, d, s)
    [] expr.type = "CallExpr" -> executeFuncCall(t, expr, d, at, s)
    [] expr.type = "LeftArrowExpr" -> executeLeftArrowExpr(t, expr, d, at, s)
    [] expr.type = "DefinedExpr" -> executeDefinedExpr(t, expr, d, at, s)
    [] OTHER -> Err(<<"unknown expression">>, s)

executeExpr(t, expr, d, at, s) ==
  EmitRet(executeNode(t, expr, d, at, Emit(s, "eval", at, Nil)), "ret", at)

\* strings.Join(lines, "\n") as text parts
RECURSIVE JoinLines(_)
JoinLines(lines) ==
  IF lines = <<>> THEN <<>>
  ELSE IF Len(lines) = 1 THEN lines
  ELSE <<lines[1], "\n">> \o JoinLines(Tail(lines))

\* executed without the deferred recover: a panic goes on to the caller
executedNoRecover(t, r) ==
  IF r.st = "err"
    THEN IF Len(t.str) > 1
           THEN Err(<<"failed to execute: \n">> \o JoinLines(t.str)
                      \o <<"\n", ": ">> \o r.err, r.s)
           ELSE Err(<<"failed to execute: ">> \o JoinLines(t.str)
                      \o <<": ">> \o r.err, r.s)
    ELSE r

\* what Execute returns once executeExpr returned or panicked with r: the
\* deferred recover (lines 146-150) and the wrapped error (lines 152-158)
executedOrRecovered(t, r) ==
  CASE r.st = "panic" -> Err(<<"failed to execute: panic: ">> \o r.err, r.s)
    [] r.st = "err" ->
         IF Len(t.str) > 1
           THEN Err(<<"failed to execute: \n">> \o JoinLines(t.str)
                      \o <<"\n", ": ">> \o r.err, r.s)
           ELSE Err(<<"failed to execute: ">> \o JoinLines(t.str)
                      \o <<": ">> \o r.err, r.s)
    [] OTHER -> r

\* (*Template).Execute
Execute(t, d, at, s) ==
  EmitRet(executedOrRecovered(t,
            executeExpr(t, t.expr, d, at,
                        Emit(s, "Execute", at, Bool(t.executingLeftArrowExprArg)))),
          "Execute.ret", at)

--------------------------------------------------------------------------
(* Inputs: names, data trees, expressions *)

Alphabet ==
  <<"a", "b", "c", "d", "e", "f", "g", "h", "i", "j", "k", "l", "m",
    "n", "o", "p", "q", "r", "s", "t", "u", "v", "w", "x", "y", "z">>

\* the characters of a lower-case word
N(w) == [i \in DOMAIN w |-> 96 + CHOOSE j \in DOMAIN Alphabet : Alphabet[j] = w[i]]

\* names used in the data trees and the expressions
W_a == N(<<"a">>)
W_ab == N(<<"a", "b">>)
W_b == N(<<"b">>)
W_boom == N(<<"b", "o", "o", "m">>)
W_buf == N(<<"b", "u", "f">>)
W_cnt == N(<<"c", "n", "t">>)
W_echo == N(<<"e", "c", "h", "o">>)
W_ef == N(<<"e", "f">>)
W_ep == N(<<"e", "p">>)
W_f == N(<<"f">>)
W_fail == N(<<"f", "a", "i", "l">>)
W_fx == N(<<"f", "x">>)
W_id == N(<<"i", "d">>)
W_items == N(<<"i", "t", "e", "m", "s">>)
W_k == N(<<"k">>)
W_l == N(<<"l">>)
W_m == N(<<"m">>)
W_n == N(<<"n">>)
W_nil == N(<<"n", "i", "l">>)
W_obj == N(<<"o", "b", "j">>)
W_one == N(<<"o", "n", "e">>)
W_part == N(<<"p", "a", "r", "t">>)
W_s == N(<<"s">>)
W_t == N(<<"t">>)
W_uf == N(<<"u", "f">>)
W_up == N(<<"u", "p">>)
W_x == N(<<"x">>)
W_y == N(<<"y">>)
W_zz == N(<<"z", "z">>)

\* backing arrays of the byte slices of the data trees
LibHeap == << <<1, 2, 3, 4>>, <<9>> >>

LibRoot ==
  << <<W_t, Bool(TRUE)>>,
     <<W_f, Bool(FALSE)>>,
     <<W_n, Int64(2)>>,
     <<W_s, Str(W_ab)>>,
     <<W_nil, Nil>>,
     <<W_buf, Bytes(1, 0, 4, 4)>>,
     <<W_part, Bytes(1, 0, 2, 4)>>,
     <<W_y, Bytes(2, 0, 1, 1)>>,
     <<W_one, Func(1)>>,
     <<W_fail, Func(2)>>,
     <<W_boom, Func(3)>>,
     <<W_id, Func(4)>>,
     <<W_cnt, Func(5)>>,
     <<W_echo, Ptr(1)>>,
     <<W_uf, Ptr(2)>>,
     <<W_up, Ptr(3)>>,
     <<W_ef, Ptr(4)>>,
     <<W_ep, Ptr(5)>>,
     <<W_fx, Ptr(6)>>,
     <<W_obj, Ptr(7)>>,
     <<W_m, V("map", <<2>>)>>,
     <<W_items, V("seq", <<3>>)>> >>

LibData ==
  [root |-> V("map", <<1>>),
   objs |-> << LibRoot,
               << <<W_k, Int64(1)>>, <<W_l, Str(W_x)>> >>,
               << Int64(5), Int64(6) >> >>]

Id(w) == Ident(w)
Call0(w) == CallExpr(Id(w), <<>>)
IntLit(n) == BasicLit("INT", Digits(n))

\* operands of the two-operand families
Int64Range == {Int64(n) : n \in MinInt64..MaxInt64}
Uint64Range == {Uint64(n) : n \in 0..MaxUint64}
MixedValues ==
  {V("int", <<MinInt64>>), V("int", <<0>>), V("int", <<3>>), Int64(0), Int64(3),
   V("uint8", <<0>>), V("uint8", <<3>>), Uint64(0), Uint64(3),
   Float64(0, 1), Float64(3, 2), Float64(-1, 2), V("float32", <<0, 1>>),
   V("float32", <<3, 2>>),
   Bool(TRUE), Bool(FALSE), Str(<<>>), Str(W_a), Nil,
   Bytes(1, 0, 2, 4), Bytes(2, 0, 1, 1)}
OperandPairs ==
  (Int64Range \X Int64Range) \cup (Uint64Range \X Uint64Range)
    \cup (MixedValues \X MixedValues)

BinaryOps == {"+", "-", "*", "/", "%", "==", "!=", "<", "<=", ">", ">=", "&&", "||"}

ArithData(x, y) ==
  [root |-> V("map", <<1>>),
   objs |-> << << <<W_a, x>>, <<W_b, y>> >> >>]

ArithExprs == {BinaryExpr(op, Id(W_a), Id(W_b)) : op \in BinaryOps}

Sources == {<<"{{e}}">>, <<"x:", "  {{e}}">>}

--------------------------------------------------------------------------
(* The reporter's test summary (package reporter) *)

\* the goroutines that report results, and the file each of them ran
Appenders == {1, 2}
testFileRelPath(g) == IF g = 1 THEN "a.yaml" ELSE "b.yaml"
\* TestResult*.String(), and a result that is none of the three
TestResults == {"passed", "failed", "skipped", "undefined"}

newTestSummary == [mu |-> 0, passed |-> <<>>, failed |-> <<>>, skipped |-> <<>>]
NoAppend == [pc |-> "idle", result |-> "undefined", calls |-> 0]
NoString ==
  [pc |-> "idle", total |-> 0, passed |-> 0, failed |-> 0, skipped |-> 0,
   seen |-> {}]
NoText == [total |-> -1, passed |-> -1, failed |-> -1, skipped |-> -1,
           failedFiles |-> <<>>]

\* the lengths of the three lists
Lengths(sm) == <<Len(sm.passed), Len(sm.failed), Len(sm.skipped)>>

\* the loop of failedFiles over the list it ranges over (lines 64-74)
RECURSIVE failedLines(_)
failedLines(fs) ==
  IF fs = <<>> THEN <<>>
  ELSE <<"\t- ", Head(fs), "\n">> \o failedLines(Tail(fs))
failedFiles(fs) ==
  IF fs = <<>> THEN <<>>
  ELSE <<"Failed tests:\n">> \o failedLines(fs) \o <<"\n">>

--------------------------------------------------------------------------
(* State machine *)

NoTemplate ==
  [str |-> <<>>, expr |-> NoExpr, executingLeftArrowExprArg |-> FALSE,
   argFuncs |-> 0]
\* bytes: the contents of a returned byte slice when it was returned
NoResult == [v |-> Nil, err |-> <<>>, bytes |-> <<>>]

InitWith(d) ==
  /\ tmpl = NoTemplate
  /\ data = d
  /\ heap = LibHeap
  /\ heap0 = LibHeap
  /\ stash = <<>>
  /\ stash0 = <<>>
  /\ ret = NoResult
  /\ prev = NoResult
  /\ log = <<>>
  /\ saved = <<>>
  /\ runs = 0
  /\ summary = newTestSummary
  /\ appenders = [g \in Appenders |-> NoAppend]
  /\ reader = NoString
  /\ text = NoText

\* New(str): the handle holds the source, the parsed tree and a fresh stash
New(str, expr) ==
  /\ tmpl.expr = NoExpr
  /\ tmpl' = [str |-> str, expr |-> expr, executingLeftArrowExprArg |-> FALSE,
              argFuncs |-> Len(stash) + 1]
  /\ stash' = Append(stash, <<>>)
  /\ UNCHANGED <<data, heap, heap0, stash0, ret, prev, log, saved, runs>>
  /\ UNCHANGED summaryVars

\* t.Execute(data) on the handle
Run ==
  /\ tmpl.expr # NoExpr
  /\ runs < MaxRuns
  /\ \E r \in {Execute(tmpl, data, <<>>,
                        [heap |-> heap, stash |-> stash, log |-> <<>>,
                         saved |-> saved])} :
        /\ ret' = [v |-> r.v, err |-> r.err,
                   bytes |-> IF r.v.k = "slice"
                               THEN BytesOf(r.s.heap, r.v) ELSE <<>>]
        /\ heap' = r.s.heap
        /\ stash' = r.s.stash
        /\ log' = r.s.log
        /\ saved' = r.s.saved
  /\ stash0' = stash[tmpl.argFuncs]
  /\ prev' = ret
  /\ runs' = runs + 1
  /\ UNCHANGED <<tmpl, data, heap0>>
  /\ UNCHANGED summaryVars

\* two-operand expressions over every pair of operands
InitArith == \E xy \in OperandPairs : InitWith(ArithData(xy[1], xy[2]))
NewArith == \E e \in ArithExprs : New(<<"{{a op b}}">>, e)
NextArith == NewArith \/ Run
SpecArith == InitArith /\ [][NextArith]_vars

\* the evaluator's node families
BoolAtoms ==
  {Id(W_t), Id(W_f), Id(W_n), Id(W_zz),
   Call0(W_boom), Call0(W_fail), Call0(W_one)}
LogicExprs ==
  {BinaryExpr(op, x, y) : op \in {"&&", "||"}, x \in BoolAtoms, y \in BoolAtoms}
   \cup {BinaryExpr("||", BinaryExpr("&&", Id(W_t), y), Id(W_f)) :
           y \in BoolAtoms}

Branches ==
  {Call0(W_one), Call0(W_fail), Call0(W_boom), IntLit(1),
   Id(W_zz)}
CondExprs ==
  {ConditionalExpr(c, x, y) :
     c \in {Id(W_t), Id(W_f), Id(W_n), Id(W_zz),
            Call0(W_boom), BinaryExpr("<", Id(W_n), IntLit(3))},
     x \in Branches, y \in Branches}

Paths ==
  {Id(W_t), Id(W_zz), Id(W_nil),
   SelectorExpr(Id(W_m), W_k), SelectorExpr(Id(W_m), W_zz),
   SelectorExpr(Id(W_zz), W_k),
   SelectorExpr(SelectorExpr(Id(W_m), W_k), W_k),
   IndexExpr(Id(W_items), IntLit(0)), IndexExpr(Id(W_items), IntLit(2)),
   IndexExpr(Id(W_items), Id(W_s)), IndexExpr(Id(W_items), Id(W_zz)),
   IndexExpr(Id(W_items), Call0(W_one)),
   IndexExpr(Id(W_m), IntLit(0)),
   IndexExpr(SelectorExpr(Id(W_m), W_l), BasicLit("STRING", W_x))}
NotPaths ==
  {IntLit(1), Call0(W_one), Call0(W_boom), ParenExpr(Id(W_t)),
   BinaryExpr("+", Id(W_n), IntLit(1)), UnaryExpr("!", Id(W_t)),
   DefinedExpr(Id(W_t)), LeftArrowExpr(Id(W_echo), NoExpr),
   ConditionalExpr(Id(W_t), Id(W_n), Id(W_n))}
DefinedExprs == {DefinedExpr(p) : p \in Paths \cup NotPaths}

ByteOperands == {Id(W_buf), Id(W_part), Id(W_y)}
ByteExprs ==
  {BinaryExpr(op, x, y) :
     op \in {"+", "<", "=="}, x \in ByteOperands, y \in ByteOperands}
   \cup {BinaryExpr("==", BinaryExpr("+", Id(W_part), x),
                          BinaryExpr("+", Id(W_part), y)) :
           x \in ByteOperands, y \in ByteOperands}
   \cup {BinaryExpr("<", BinaryExpr("+", Id(W_buf), Id(W_y)),
                         BinaryExpr("+", Id(W_part), Id(W_y)))}

Param(x) == ParameterExpr(x, FALSE)
Quoted(x) == ParameterExpr(x, TRUE)
ArrowFuns ==
  {Id(W_echo), Id(W_uf), Id(W_up), Id(W_ef), Id(W_ep),
   Id(W_fx), Id(W_obj), Id(W_n), Id(W_zz), Call0(W_boom)}
ArrowArgs ==
  {NoExpr, Param(Id(W_n)), Param(Id(W_m)), Quoted(Id(W_one)),
   Param(Id(W_one)), IntLit(1), Param(Call0(W_boom)),
   Param(Id(W_zz)), Param(NoExpr), Quoted(Id(W_zz)),
   BinaryExpr("+", Quoted(Id(W_one)), Quoted(Id(W_id))),
   BinaryExpr("+", BinaryExpr("+", Quoted(Id(W_id)), Quoted(Id(W_one))),
                   Quoted(Id(W_cnt))),
   Quoted(LeftArrowExpr(Id(W_echo), Quoted(Id(W_id)))),
   Quoted(LeftArrowExpr(Id(W_echo), Param(Call0(W_boom)))),
   BinaryExpr("+", Quoted(Id(W_one)),
              Quoted(LeftArrowExpr(Id(W_echo), Quoted(Id(W_id)))))}
ArrowExprs == {LeftArrowExpr(f, a) : f \in ArrowFuns, a \in ArrowArgs}

OtherExprs ==
  {Id(W_n), Id(W_zz), Call0(W_boom), Call0(W_fail),
   Param(Id(W_one)), Param(Id(W_n)), UnaryExpr("-", Id(W_n)),
   CallExpr(Id(W_id), <<Id(W_n)>>),
   CallExpr(Id(W_id), <<Call0(W_boom)>>),
   CallExpr(SelectorExpr(Id(W_nil), W_m), <<>>),
   CallExpr(SelectorExpr(Id(W_obj), W_m), <<>>),
   BinaryExpr("*", UnaryExpr("-", IntLit(MaxInt64)), IntLit(2))}

\* calls with too few, enough and too many arguments
CallExprs ==
  {CallExpr(Id(W_id), <<>>),
   CallExpr(Id(W_id), <<Id(W_n), Call0(W_boom)>>),
   CallExpr(Id(W_one), <<Call0(W_boom)>>),
   CallExpr(Id(W_cnt), <<>>),
   CallExpr(Id(W_cnt), <<Id(W_n)>>),
   CallExpr(Id(W_cnt), <<Call0(W_boom)>>),
   CallExpr(Id(W_cnt), <<Id(W_n), Id(W_n), Id(W_n)>>),
   CallExpr(Id(W_cnt), <<Id(W_n), Id(W_s)>>),
   CallExpr(Id(W_n), <<Call0(W_boom)>>),
   CallExpr(SelectorExpr(Id(W_obj), W_m), <<Call0(W_boom)>>),
   CallExpr(SelectorExpr(Id(W_obj), W_zz), <<>>),
   CallExpr(SelectorExpr(Id(W_m), W_k), <<>>),
   CallExpr(Id(W_id), <<CallExpr(Id(W_cnt), <<>>)>>),
   LeftArrowExpr(Id(W_echo), Param(CallExpr(Id(W_id), <<>>)))}

\* parameters of the top-level template next to left-arrow calls
ModeExprs ==
  {BinaryExpr("==", LeftArrowExpr(Id(W_echo), Quoted(Id(W_one))),
              Param(Id(W_one))),
   ConditionalExpr(BinaryExpr("==", LeftArrowExpr(Id(W_echo), Param(Id(W_t))),
                              Id(W_t)),
                   Param(Id(W_m)), Param(Id(W_n))),
   Param(LeftArrowExpr(Id(W_echo), Param(Id(W_m)))),
   Param(LeftArrowExpr(Id(W_echo),
                       Quoted(LeftArrowExpr(Id(W_echo), Param(Id(W_m)))))),
   BinaryExpr("+", Param(Id(W_s)), Param(Id(W_m)))}

Exprs ==
  LogicExprs \cup CondExprs \cup DefinedExprs \cup ByteExprs \cup ArrowExprs
    \cup OtherExprs \cup CallExprs \cup ModeExprs

Init == InitWith(LibData)
Parse == \E str \in Sources, e \in Exprs : New(str, e)
Next == Parse \/ Run
Spec == Init /\ [][Next]_vars

\* string concatenation over every pair of short texts, by a handle in
\* normal mode (New) or in re-serialisation mode (executeLeftArrowExprArg),
\* with a right operand that is a ParameterExpr or not
Texts == UNION {[1..n -> {97, NL}] : n \in 0..MaxLen}
InitIndent ==
  \E P \in Texts, S \in Texts : InitWith(ArithData(Str(P), Str(S)))
NewIndent ==
  \E mode \in BOOLEAN, y \in {Param(Id(W_b)), Id(W_b)} :
    /\ tmpl.expr = NoExpr
    /\ tmpl' = [str |-> <<>>, expr |-> BinaryExpr("+", Id(W_a), y),
                executingLeftArrowExprArg |-> mode,
                argFuncs |-> Len(stash) + 1]
    /\ stash' = Append(stash, <<>>)
    /\ UNCHANGED <<data, heap, heap0, stash0, ret, prev, log, saved, runs>>
  /\ UNCHANGED summaryVars
\* executeBinaryExpr from line 342 on, for the values x and y that e.X and
\* e.Y returned
Concat ==
  /\ tmpl.expr # NoExpr
  /\ runs = 0
  /\ \E r \in {binaryOp(tmpl, tmpl.expr, data.objs[1][1][2], data.objs[1][2][2],
                         [heap |-> heap, stash |-> stash, log |-> <<>>,
                          saved |-> saved])} :
        ret' = [v |-> r.v, err |-> r.err, bytes |-> <<>>]
  /\ runs' = runs + 1
  /\ UNCHANGED <<tmpl, data, heap, heap0, stash, stash0, prev, log, saved>>
  /\ UNCHANGED summaryVars
NextIndent == NewIndent \/ Concat
SpecIndent == InitIndent /\ [][NextIndent]_vars

\* append, line 27: s.mu.Lock()
appendLock(g, testResultString) ==
  /\ appenders[g].pc = "idle"
  /\ appenders[g].calls < MaxAppends
  /\ summary.mu = 0
  /\ summary' = [summary EXCEPT !.mu = g]
  /\ appenders' = [appenders EXCEPT ![g] =
                     [pc |-> "locked", result |-> testResultString,
                      calls |-> @.calls + 1]]
  /\ UNCHANGED <<reader, text>>
  /\ UNCHANGED templateVars

\* append, lines 30-38: the switch.  A String that is running may see the
\* list before or after the write.
appendSwitch(g) ==
  /\ appenders[g].pc = "locked"
  /\ summary' =
       CASE appenders[g].result = "passed" ->
              [summary EXCEPT !.passed = Append(@, testFileRelPath(g))]
         [] appenders[g].result = "failed" ->
              [summary EXCEPT !.failed = Append(@, testFileRelPath(g))]
         [] appenders[g].result = "skipped" ->
              [summary EXCEPT !.skipped = Append(@, testFileRelPath(g))]
         [] OTHER -> summary
  /\ appenders' = [appenders EXCEPT ![g].pc = "written"]
  /\ reader' = IF reader.pc \in {"idle", "done"} THEN reader
               ELSE [reader EXCEPT !.seen = @ \cup {Lengths(summary')}]
  /\ UNCHANGED text
  /\ UNCHANGED templateVars

\* append, line 28: the deferred s.mu.Unlock()
appendUnlock(g) ==
  /\ appenders[g].pc = "written"
  /\ summary' = [summary EXCEPT !.mu = 0]
  /\ appenders' = [appenders EXCEPT ![g].pc = "idle"]
  /\ UNCHANGED <<reader, text>>
  /\ UNCHANGED templateVars

\* String is called; it takes no lock
StringCall ==
  /\ reader.pc = "idle"
  /\ reader' = [reader EXCEPT !.pc = "48passed", !.seen = {Lengths(summary)}]
  /\ UNCHANGED <<summary, appenders, text>>
  /\ UNCHANGED templateVars

\* line 48: len(s.passed)+len(s.failed)+len(s.skipped), one read at a time
String48 ==
  /\ reader.pc \in {"48passed", "48failed", "48skipped"}
  /\ reader' =
       CASE reader.pc = "48passed" ->
              [reader EXCEPT !.pc = "48failed", !.total = Len(summary.passed)]
         [] reader.pc = "48failed" ->
              [reader EXCEPT !.pc = "48skipped",
                             !.total = @ + Len(summary.failed)]
         [] OTHER ->
              [reader EXCEPT !.pc = "49", !.total = @ + Len(summary.skipped)]
  /\ UNCHANGED <<summary, appenders, text>>
  /\ UNCHANGED templateVars

\* line 49: len(s.passed)
String49 ==
  /\ reader.pc = "49"
  /\ reader' = [reader EXCEPT !.pc = "50", !.passed = Len(summary.passed)]
  /\ UNCHANGED <<summary, appenders, text>>
  /\ UNCHANGED templateVars

\* line 50: len(s.failed)
String50 ==
  /\ reader.pc = "50"
  /\ reader' = [reader EXCEPT !.pc = "51", !.failed = Len(summary.failed)]
  /\ UNCHANGED <<summary, appenders, text>>
  /\ UNCHANGED templateVars

\* line 51: len(s.skipped)
String51 ==
  /\ reader.pc = "51"
  /\ reader' = [reader EXCEPT !.pc = "52", !.skipped = Len(summary.skipped)]
  /\ UNCHANGED <<summary, appenders, text>>
  /\ UNCHANGED templateVars

\* lines 52-56: s.failedFiles() and the text.  The list is read at line 60
\* and, when that found it non-empty, again at line 66; the list only
\* grows, so both reads together see what one read of the list sees.
String52 ==
  /\ reader.pc = "52"
  /\ text' = [total |-> reader.total, passed |-> reader.passed,
              failed |-> reader.failed, skipped |-> reader.skipped,
              failedFiles |-> failedFiles(summary.failed)]
  /\ reader' = [reader EXCEPT !.pc = "done"]
  /\ UNCHANGED <<summary, appenders>>
  /\ UNCHANGED templateVars

NextSummary ==
  \/ \E g \in Appenders, r \in TestResults : appendLock(g, r)
  \/ \E g \in Appenders : appendSwitch(g)
  \/ \E g \in Appenders : appendUnlock(g)
  \/ StringCall
  \/ String48
  \/ String49
  \/ String50
  \/ String51
  \/ String52
SpecSummary == Init /\ [][NextSummary]_vars

--------------------------------------------------------------------------
(* What the claims read off a state *)

Done == runs > 0
Op == tmpl.expr.Op
OperandA == data.objs[1][1][2]
OperandB == data.objs[1][2][2]
A == OperandA.p[1]
B == OperandB.p[1]
InInt64(m) == m >= MinInt64 /\ m <= MaxInt64
HasPart(err, part) == \E i \in DOMAIN err : err[i] = part
\* the error text begins with the given parts
Begins(err, parts) ==
  Len(err) >= Len(parts) /\ SubSeq(err, 1, Len(parts)) = parts
Failed == ret.err # <<>> /\ ret.v = Nil
Returned(v) == ret.err = <<>> /\ ret.v = v
SignedPair == OperandA.k \in IntKinds /\ OperandB.k = OperandA.k
Exact(op, a, b) ==
  CASE op = "+" -> a + b
    [] op = "-" -> a - b
    [] op = "*" -> a * b
    [] op = "/" -> TruncQuo(a, b)
    [] OTHER -> TruncRem(a, b)

C2_SignedDivExactOrFails ==
  (Done /\ SignedPair /\ Op \in {"/", "%"} /\ B # 0) =>
     \/ Failed
     \/ InInt64(Exact(Op, A, B)) /\ Returned(Int64(Exact(Op, A, B)))

C2_FailingInput ==
  Done /\ Op = "/" /\ OperandA = Int64(MinInt64) /\ OperandB = Int64(-1)

NumKinds == IntKinds \cup UintKinds \cup FloatKinds

--------------------------------------------------------------------------
(* Reading the trace of the last Execute *)

IsPrefix(p, q) == Len(p) <= Len(q) /\ SubSeq(q, 1, Len(p)) = p

\* the node of the template's tree at position p
RECURSIVE NodeAt(_, _)
NodeAt(e, p) ==
  IF p = <<>> THEN e
  ELSE LET h == Head(p)
           r == Tail(p)
       IN CASE e.type = "BinaryExpr" -> NodeAt(IF h = 1 THEN e.X ELSE e.Y, r)
            [] e.type = "ConditionalExpr" ->
                 NodeAt(IF h = 1 THEN e.Condition
                        ELSE IF h = 2 THEN e.X ELSE e.Y, r)
            [] e.type = "CallExpr" ->
                 NodeAt(IF h = 1 THEN e.Fun ELSE e.Args[h - 1], r)
            [] e.type = "LeftArrowExpr" ->
                 NodeAt(IF h = 1 THEN e.Fun ELSE e.Arg, r)
            [] OTHER -> NodeAt(e.X, r)

Has(ev, p) == \E i \in DOMAIN log : log[i].ev = ev /\ log[i].at = p
Where(ev, p) == CHOOSE i \in DOMAIN log : log[i].ev = ev /\ log[i].at = p
Event(ev, p) == log[Where(ev, p)]
Count(ev, p) == Cardinality({i \in DOMAIN log : log[i].ev = ev /\ log[i].at = p})
\* something happened at p or below it
Touched(p) == \E i \in DOMAIN log : IsPrefix(p, log[i].at)
\* b is the event that follows a
Follows(a, b) ==
  /\ Has(a[1], a[2]) /\ Has(b[1], b[2])
  /\ Where(b[1], b[2]) = Where(a[1], a[2]) + 1
\* the positions where a node of the given type was evaluated
Evaluated(type) ==
  {log[i].at : i \in {j \in DOMAIN log :
                        log[j].ev = "eval"
                          /\ NodeAt(tmpl.expr, log[j].at).type = type}}
\* the outcome of the node at p is the outcome of the event (ev, q)
SameOutcome(p, ev, q) ==
  /\ Has("ret", p) /\ Has(ev, q)
  /\ Event("ret", p).st = Event(ev, q).st
  /\ Event("ret", p).arg = Event(ev, q).arg
  /\ Event("ret", p).err = Event(ev, q).err

PathTypes == {"Ident", "SelectorExpr", "IndexExpr"}

\* C3: defined(p) on a path p is true when the lookup of p succeeds, false
\* without error when it fails as not defined, and fails with the lookup's
\* error otherwise; on any other node it fails with the invalid-argument
\* error and nothing of the argument is evaluated.
C3_DefinedFollowsLookup ==
  Done =>
    \A p \in Evaluated("DefinedExpr") :
      LET arg == NodeAt(tmpl.expr, p).Arg
          x == extract(arg, data)
          r == Event("ret", p)
      IN IF arg.type \in PathTypes
           THEN IF x.err = <<>>
                  THEN r.st = "ok" /\ r.arg = Bool(TRUE)
                ELSE IF IsNotDefined(x.err)
                  THEN r.st = "ok" /\ r.arg = Bool(FALSE) /\ r.err = <<>>
                ELSE r.st = "err" /\ r.arg = Nil /\ r.err = x.err
           ELSE /\ r.st = "err" /\ r.arg = Nil
                /\ r.err = <<"invalid argument to defined()">>
                /\ ~Touched(p \o <<1>>)
                /\ Follows(<<"eval", p>>, <<"ret", p>>)

C3_Witness ==
  /\ Done
  /\ tmpl.expr = DefinedExpr(SelectorExpr(Id(W_m), W_zz))
  /\ IsNotDefined(extract(tmpl.expr.Arg, data).err)
  /\ Returned(Bool(FALSE))

\* a panic was raised during the last Execute
Panicked == \E i \in DOMAIN log : log[i].st = "panic"
\* ... and one was raised inside a child template (a left-arrow argument)
PanickedInChild ==
  \E i \in DOMAIN log, j \in DOMAIN log :
    /\ log[i].st = "panic"
    /\ log[j].ev = "Execute" /\ log[j].at # <<>>
    /\ IsPrefix(log[j].at, log[i].at)

\* C4 as stated: after a panic anywhere, Execute returns nil and an error
\* whose text begins "failed to execute: panic: ".
C4_PanicErrorBeginsWithPanic ==
  (Done /\ Panicked) =>
    ret.v = Nil /\ Begins(ret.err, <<"failed to execute: panic: ">>)

\* C4: after a panic anywhere, Execute returns nil and an error that holds
\* "failed to execute: panic: "; the text begins with it when the panic was
\* raised in the template's own evaluation, and begins with "failed to
\* execute: " and the template's source when it was raised in a child
\* template.
C4_PanicIsReturnedAsError ==
  (Done /\ Panicked) =>
    /\ ret.v = Nil
    /\ HasPart(ret.err, "failed to execute: panic: ")
    /\ ~PanickedInChild => Begins(ret.err, <<"failed to execute: panic: ">>)
    /\ PanickedInChild =>
         \/ Begins(ret.err, <<"failed to execute: ">> \o JoinLines(tmpl.str))
         \/ Begins(ret.err, <<"failed to execute: \n">> \o JoinLines(tmpl.str))

C4_Witness ==
  /\ Done
  /\ tmpl.expr = LeftArrowExpr(Id(W_echo), Param(Call0(W_boom)))
  /\ PanickedInChild
  /\ ret.v = Nil
  /\ ~Begins(ret.err, <<"failed to execute: panic: ">>)
  /\ HasPart(ret.err, "failed to execute: panic: ")

\* the last Execute returned what the one before it returned (byte slices
\* are compared by their contents)
SameResult ==
  /\ ret.err = prev.err
  /\ ret.v.k = prev.v.k
  /\ ret.bytes = prev.bytes
  /\ ret.v.k # "slice" => ret.v = prev.v

\* the expression holds a call of a user-supplied function
RECURSIVE HasCall(_)
HasCall(e) ==
  CASE e.type \in {"CallExpr", "LeftArrowExpr"} -> TRUE
    [] e.type \in {"BinaryExpr"} -> HasCall(e.X) \/ HasCall(e.Y)
    [] e.type = "ConditionalExpr" ->
         HasCall(e.Condition) \/ HasCall(e.X) \/ HasCall(e.Y)
    [] e.type \in {"ParameterExpr", "ParenExpr", "UnaryExpr", "SelectorExpr"} ->
         HasCall(e.X)
    [] e.type = "IndexExpr" -> HasCall(e.X) \/ HasCall(e.Index)
    [] e.type = "DefinedExpr" -> HasCall(e.Arg)
    [] OTHER -> FALSE

\* C5: an Execute of an expression without user-supplied function calls
\* leaves every backing array of the data tree as it was, and a second
\* Execute on the same data returns what the first returned.
C5_DataTreeUnchanged ==
  (Done /\ ~HasCall(tmpl.expr)) =>
    /\ SubSeq(heap, 1, Len(heap0)) = heap0
    /\ runs > 1 => SameResult

\* the operand result r makes the node at p fail with r's error
FailsWith(p, r) ==
  /\ Event("ret", p).st = r.st
  /\ Event("ret", p).arg = Nil
  /\ Event("ret", p).err =
       (IF r.st = "err" THEN <<"invalid operation: ">> ELSE <<>>) \o r.err

\* C6: every binary expression evaluates its left operand first and, once
\* that yielded a value, its right operand, whatever the value is; a failure
\* of either operand is the failure of the expression; the operator is
\* applied only after both operands yielded a value.
C6_BothOperandsEvaluated ==
  Done =>
    \A p \in Evaluated("BinaryExpr") :
      LET x == p \o <<1>>
          y == p \o <<2>>
      IN /\ Follows(<<"eval", p>>, <<"eval", x>>)
         /\ Has("ret", x)
         /\ IF Event("ret", x).st # "ok"
              THEN /\ ~Touched(y)
                   /\ ~Has("apply", p)
                   /\ FailsWith(p, Event("ret", x))
              ELSE /\ Follows(<<"ret", x>>, <<"eval", y>>)
                   /\ Has("ret", y)
                   /\ IF Event("ret", y).st # "ok"
                        THEN /\ ~Has("apply", p)
                             /\ FailsWith(p, Event("ret", y))
                        ELSE Follows(<<"ret", y>>, <<"apply", p>>)

C6_Witness ==
  /\ Done
  /\ tmpl.expr = BinaryExpr("||", Id(W_t), Call0(W_fail))
  /\ Event("ret", <<1>>).arg = Bool(TRUE)
  /\ Has("call", <<2>>)
  /\ ~Has("apply", <<>>)
  /\ Failed /\ HasPart(ret.err, "boom")

\* C7: c ? x : y evaluates c first; a c that is no boolean is a type error
\* and neither branch is touched; otherwise exactly the selected branch is
\* evaluated, its outcome is the outcome of the expression, and nothing of
\* the other branch is evaluated or called.
C7_OnlySelectedBranch ==
  Done =>
    \A p \in Evaluated("ConditionalExpr") :
      LET c == p \o <<1>>
          x == p \o <<2>>
          y == p \o <<3>>
          rc == Event("ret", c)
      IN /\ Follows(<<"eval", p>>, <<"eval", c>>)
         /\ Has("ret", c)
         /\ IF rc.st # "ok"
              THEN ~Touched(x) /\ ~Touched(y) /\ SameOutcome(p, "ret", c)
            ELSE IF rc.arg.k # "bool"
              THEN /\ ~Touched(x) /\ ~Touched(y)
                   /\ Event("ret", p).st = "err"
                   /\ Begins(Event("ret", p).err,
                             <<"invalid operation: operator ? not defined on ">>)
            ELSE IF rc.arg = Bool(TRUE)
              THEN /\ Follows(<<"ret", c>>, <<"eval", x>>)
                   /\ ~Touched(y)
                   /\ SameOutcome(p, "ret", x)
            ELSE /\ Follows(<<"ret", c>>, <<"eval", y>>)
                 /\ ~Touched(x)
                 /\ SameOutcome(p, "ret", y)

C7_Witness ==
  /\ Done
  /\ tmpl.expr = ConditionalExpr(Id(W_f), Call0(W_boom), Call0(W_one))
  /\ ~Touched(<<2>>)
  /\ Has("call", <<3>>)
  /\ Returned(Int64(1))

\* v implements the template-function interface (Exec, UnmarshalArg)
IsFunc(v) == v.k = "ptr" /\ Structs[v.p[1]].tfunc
\* neither UnmarshalArg nor Exec was invoked by the left-arrow call at p
NotInvoked(p) == ~Has("UnmarshalArg", p) /\ ~Has("Exec", p)

\* C9: fun <- (arg) evaluates fun first and fails before arg is touched when
\* fun is no template function; without arg it returns a lazy handle and
\* invokes nothing; otherwise arg is executed in a child template and must
\* yield text, then UnmarshalArg is invoked once with that text, then, only
\* if it returned without error, Exec once with the argument it returned;
\* Exec's outcome is the outcome of the call.  A failing step ends the call
\* with its error and no later step runs.
C9_LeftArrowProtocol ==
  Done =>
    \A p \in Evaluated("LeftArrowExpr") :
      LET e == NodeAt(tmpl.expr, p)
          f == p \o <<1>>
          a == p \o <<2>>
          rf == Event("ret", f)
          ra == Event("Execute.ret", a)
          u == Event("UnmarshalArg.ret", p)
      IN /\ Follows(<<"eval", p>>, <<"eval", f>>)
         /\ Has("ret", f) /\ Has("ret", p)
         /\ Count("UnmarshalArg", p) <= 1 /\ Count("Exec", p) <= 1
         /\ IF rf.st # "ok"
              THEN ~Touched(a) /\ NotInvoked(p) /\ SameOutcome(p, "ret", f)
            ELSE IF ~IsFunc(rf.arg)
              THEN /\ ~Touched(a) /\ NotInvoked(p)
                   /\ Event("ret", p).st = "err"
                   /\ Begins(Event("ret", p).err,
                             <<"expect template function but got *ast.LeftArrowExpr">>)
            ELSE IF e.Arg = NoExpr
              THEN /\ ~Touched(a) /\ NotInvoked(p)
                   /\ Event("ret", p).st = "ok"
                   /\ Event("ret", p).arg = V("lazyFunc", rf.arg.p)
            ELSE /\ Follows(<<"ret", f>>, <<"Execute", a>>)
                 /\ Event("Execute", a).arg = Bool(TRUE)
                 /\ Has("Execute.ret", a)
                 /\ IF ra.st # "ok"
                      THEN NotInvoked(p) /\ SameOutcome(p, "Execute.ret", a)
                    ELSE IF ra.arg.k # "string"
                      THEN /\ NotInvoked(p)
                           /\ Event("ret", p).st = "err"
                           /\ Begins(Event("ret", p).err,
                                     <<"expect string but got ">>)
                    ELSE /\ Follows(<<"Execute.ret", a>>, <<"UnmarshalArg", p>>)
                         /\ Event("UnmarshalArg", p).arg = ra.arg
                         /\ Follows(<<"UnmarshalArg", p>>, <<"UnmarshalArg.ret", p>>)
                         /\ IF u.st # "ok"
                              THEN /\ ~Has("Exec", p)
                                   /\ SameOutcome(p, "UnmarshalArg.ret", p)
                              ELSE /\ Follows(<<"UnmarshalArg.ret", p>>, <<"Exec", p>>)
                                   /\ Event("Exec", p).arg = u.arg
                                   /\ Follows(<<"Exec", p>>, <<"Exec.ret", p>>)
                                   /\ Follows(<<"Exec.ret", p>>, <<"ret", p>>)
                                   /\ SameOutcome(p, "Exec.ret", p)

C9_Witness ==
  /\ Done
  /\ tmpl.expr = LeftArrowExpr(Id(W_echo), Quoted(Id(W_one)))
  /\ Count("UnmarshalArg", <<>>) = 1 /\ Count("Exec", <<>>) = 1
  /\ Event("Exec", <<>>).arg = Event("UnmarshalArg.ret", <<>>).arg
  /\ ret.err = <<>> /\ ret.v = Event("Exec", <<>>).arg /\ ret.v.k = "func"

\* the functions saved during the last Execute, in order
Saves == SelectSeq(log, LAMBDA ev : ev.ev = "save")

\* C10: after the saves of one evaluation, the k-th function saved (from 0)
\* is stored under func-k and the stash holds as many entries as saves were
\* made.
C10_StashNamesFollowSaves ==
  Done =>
    LET st == stash[tmpl.argFuncs]
    IN /\ Cardinality(DOMAIN st) = Len(Saves)
       /\ \A k \in 1..Len(Saves) :
            FuncName(k - 1) \in DOMAIN st /\ st[FuncName(k - 1)] = Saves[k].arg

\* C11: every top-level Execute of a handle finds the handle's stash empty,
\* and the first function it stashes is stored under func-0.
C11_StashEmptyAtExecute ==
  Done =>
    /\ DOMAIN stash0 = {}
    /\ Saves # <<>> =>
         /\ FuncName(0) \in DOMAIN stash[tmpl.argFuncs]
         /\ FuncName(0) \notin DOMAIN stash0
         /\ stash[tmpl.argFuncs][FuncName(0)] = Saves[1].arg

\* the function a call at p resolved to, and whether a method receiver was
\* prepended to its arguments
Callee(p) ==
  LET e == NodeAt(tmpl.expr, p)
      x == Event("ret", p \o <<1, 1>>).arg
      v == extract(e.Fun.Sel, [data EXCEPT !.root = x])
  IN IF e.Fun.type = "SelectorExpr"
       THEN IF v.err = <<>> THEN [fn |-> v.v, recv |-> 0]
            ELSE [fn |-> getMethod(x, e.Fun.Sel.Name).fn, recv |-> 1]
       ELSE [fn |-> Event("ret", p \o <<1>>).arg, recv |-> 0]
\* where the callee of the call at p is evaluated
CalleeAt(p) ==
  IF NodeAt(tmpl.expr, p).Fun.type = "SelectorExpr"
    THEN p \o <<1, 1>> ELSE p \o <<1>>
\* n arguments fit the formals of f
Fits(f, n) == IF f.Variadic THEN n >= Len(f.In) - 1 ELSE n = Len(f.In)

\* C12: once the callee of a call resolved to a function, the number of
\* arguments (the written ones, plus the prepended receiver) is checked
\* against its formals before anything else: when it does not fit, the call
\* fails with an arity error, no argument is evaluated and the function is
\* not invoked; the function is invoked only when it fits.
C12_ArityBeforeArguments ==
  Done =>
    \A p \in Evaluated("CallExpr") :
      LET e == NodeAt(tmpl.expr, p)
          c == Callee(p)
          n == Len(e.Args) + c.recv
      IN (Has("ret", CalleeAt(p)) /\ Event("ret", CalleeAt(p)).st = "ok"
            /\ c.fn.k = "func") =>
           /\ Has("call", p) =>
                /\ Event("call", p).arg = c.fn
                /\ Fits(Funcs[c.fn.p[1]], n)
                /\ \A i \in 1..Len(e.Args) :
                     /\ Has("ret", p \o <<1 + i>>)
                     /\ Where("ret", p \o <<1 + i>>) < Where("call", p)
           /\ ~Fits(Funcs[c.fn.p[1]], n) =>
                /\ ~Has("call", p)
                /\ \A i \in 1..Len(e.Args) : ~Touched(p \o <<1 + i>>)
                /\ Follows(<<"ret", CalleeAt(p)>>, <<"ret", p>>)
                /\ Event("ret", p).st = "err"
                /\ \/ Begins(Event("ret", p).err,
                              <<"too few arguments to function">>)
                   \/ Begins(Event("ret", p).err,
                              <<"expected function argument number is ">>)

C12_Witness ==
  /\ Done
  /\ tmpl.expr = CallExpr(Id(W_id), <<Id(W_n), Call0(W_boom)>>)
  /\ Callee(<<>>).fn = Func(4)
  /\ ~Touched(<<2>>) /\ ~Touched(<<3>>)
  /\ ~Has("call", <<>>)
  /\ Failed /\ HasPart(ret.err, "expected function argument number is ")

UnsignedPair == OperandA.k \in UintKinds /\ OperandB.k = OperandA.k
InUint64(m) == m >= 0 /\ m <= MaxUint64

\* C13: for unsigned operands a, b (zero included) and op in {+, -, *}, the
\* result is the exact mathematical value when that lies in 0..2^64-1 and
\* an overflow error otherwise.
C13_UnsignedArithExactOrOverflow ==
  (Done /\ UnsignedPair /\ Op \in {"+", "-", "*"}) =>
     IF InUint64(Exact(Op, A, B))
       THEN Returned(Uint64(Exact(Op, A, B)))
       ELSE Failed /\ HasPart(ret.err, " overflows uint")

\* the value adapter's classification of a kind
Family(k) ==
  IF k \in IntKinds THEN "int-family"
  ELSE IF k \in UintKinds THEN "uint-family"
  ELSE IF k \in FloatKinds THEN "float-family"
  ELSE k
MismatchedTypes == HasPart(ret.err, ": mismatched types ")

\* C14: a binary operator fails with the mismatched-types error exactly
\* when its operands are of different families; operands of one family and
\* different widths are evaluated by the rules of the family.
C14_MismatchExactlyAcrossFamilies ==
  Done =>
    /\ MismatchedTypes <=> Family(OperandA.k) # Family(OperandB.k)
    /\ (OperandA.k \in IntKinds /\ OperandB.k \in IntKinds /\ Op = "+"
          /\ InInt64(A + B)) => Returned(Int64(A + B))

\* the node at p is evaluated by a child template
InChild(p) ==
  \E i \in DOMAIN log :
    log[i].ev = "Execute" /\ log[i].at # <<>> /\ IsPrefix(log[i].at, p)
\* the stashed functions
Stashed(a) == {stash[a][n] : n \in DOMAIN stash[a]}

\* C15: the handle made by New is never in re-serialisation mode, and its
\* parameters return their inner outcome as it is, whatever left-arrow calls
\* ran before; every child template runs for the argument of a left-arrow
\* call, in re-serialisation mode, whose parameters yield text, and stashes
\* into the one stash of the handle.
C15_ModeOnlyInChild ==
  /\ tmpl.executingLeftArrowExprArg = FALSE
  /\ Done =>
       /\ \A i \in DOMAIN log :
            log[i].ev = "Execute" =>
              IF log[i].at = <<>> THEN log[i].arg = Bool(FALSE)
              ELSE /\ log[i].arg = Bool(TRUE)
                   /\ log[i].at[Len(log[i].at)] = 2
                   /\ NodeAt(tmpl.expr,
                             SubSeq(log[i].at, 1, Len(log[i].at) - 1)).type
                        = "LeftArrowExpr"
       /\ \A p \in Evaluated("ParameterExpr") :
            (NodeAt(tmpl.expr, p).X # NoExpr /\ Has("ret", p)) =>
              IF InChild(p)
                THEN Event("ret", p).st = "ok" => Event("ret", p).arg.k = "string"
                ELSE SameOutcome(p, "ret", p \o <<1>>)
       /\ Len(stash) = 1
       /\ \A k \in DOMAIN Saves : Saves[k].arg \in Stashed(tmpl.argFuncs)

C15_Witness ==
  /\ runs = 2
  /\ tmpl.expr.type = "ConditionalExpr"
  /\ tmpl.expr.X = Param(Id(W_m))
  /\ Has("Execute", <<1, 1, 2>>)
  /\ Event("Execute", <<1, 1, 2>>).arg = Bool(TRUE)
  /\ Event("ret", <<1, 1, 2>>).arg = Str(T_true)
  /\ tmpl.executingLeftArrowExprArg = FALSE
  /\ Has("ret", <<2>>)
  /\ Returned(V("map", <<2>>))

\* number of characters of the last line of cs
RECURSIVE LastLineWidth(_)
LastLineWidth(cs) ==
  IF cs = <<>> \/ cs[Len(cs)] = NL THEN 0
  ELSE 1 + LastLineWidth(SubSeq(cs, 1, Len(cs) - 1))

\* cs from character i on, with w spaces put after every line break
\* (all), or after every line break that a non-empty line follows
RECURSIVE IndentFrom(_, _, _, _)
IndentFrom(cs, i, w, all) ==
  IF i > Len(cs) THEN <<>>
  ELSE <<cs[i]>>
       \o (IF cs[i] = NL /\ (all \/ (i < Len(cs) /\ cs[i + 1] # NL))
             THEN Spaces(w) ELSE <<>>)
       \o IndentFrom(cs, i + 1, w, all)

\* the indent-alignment rule applies to the concatenation of the state
Aligning ==
  /\ tmpl.executingLeftArrowExprArg
  /\ tmpl.expr.Y.type = "ParameterExpr"
  /\ \E i \in DOMAIN OperandB.p : OperandB.p[i] = NL
  /\ OperandA.p # <<>>
Aligned(all) ==
  OperandA.p \o (IF Aligning
                   THEN IndentFrom(OperandB.p, 1, LastLineWidth(OperandA.p), all)
                   ELSE OperandB.p)

\* C16 as stated: P + S is P followed by S with every line after the first
\* preceded by as many spaces as the last line of P is wide, and by S
\* unchanged when the rule does not apply.
C16_EveryLineIndented == Done => Returned(Str(Aligned(TRUE)))

\* C16: P + S is P followed by S with every non-empty line after the first
\* preceded by as many spaces as the last line of P has characters, empty
\* lines staying empty, and by S unchanged when the rule does not apply.
C16_NonEmptyLinesIndented == Done => Returned(Str(Aligned(FALSE)))

C16_Witness ==
  /\ Done /\ Aligning
  /\ OperandA = Str(<<97, NL, 97, 97>>)
  /\ OperandB = Str(<<97, NL, NL, 97>>)
  /\ Returned(Str(<<97, NL, 97, 97, 97, NL, NL, SP, SP, 97>>))

\* the files listed in the text
Listed == Cardinality({i \in DOMAIN text.failedFiles : text.failedFiles[i] = "\t- "})

\* C17: a text returned by String reports a total that is the sum of the
\* three counts it reports, lists as many failed files as it reports, and
\* reports counts that were the lengths of the three lists at one moment
\* while String ran.
C17_SummaryTextConsistent ==
  text # NoText =>
    /\ text.total = text.passed + text.failed + text.skipped
    /\ Listed = text.failed
    /\ <<text.passed, text.failed, text.skipped>> \in reader.seen

====
